---------------------------- MODULE Spec2Model ----------------------------
(***************************************************************************)
(* Flying Whiskers: the Game component (score, pause, start, restart) and  *)
(* the GameScene component (three sprites, the per-frame render observer,  *)
(* the keyboard / touch / mouse handlers).                                 *)
(*                                                                         *)
(* Numbers.  The program computes with JavaScript doubles; the model uses  *)
(* fixed point with Unit = 1000 steps per world unit (0.001 is the finest  *)
(* program constant, DOG_CHASE_SPEED = 0.018).  Products and quotients are *)
(* rounded toward zero.  Comparisons of distances with thresholds are done *)
(* on squares and are exact on the grid.                                   *)
(***************************************************************************)
EXTENDS Integers, FiniteSets, Sequences, TLC

VARIABLES
    score,              \* Game.tsx: useState score
    key,                \* Game.tsx: useState key
    isPaused,           \* Game.tsx: useState isPaused
    isGameStarted,      \* Game.tsx: useState isGameStarted
    depCanvas,          \* canvasRef.current as read by the last render's dependency lists (TRUE: the element)
    obs,                \* the props the registered render observer closed over
    failAt,             \* which "new Sprite" throws in this environment ("none": no failure)
    catSpriteRef, sardineSpriteRef, dogSpriteRef,
    catVelocityRef, sardineVelocityRef, dogVelocityRef,
    sardineSpriteManagerRef, sceneRef,
    mounted,            \* the GameScene component is mounted
    scenesCreated,      \* number of runs of the scene effect; a run's number names its
                        \* scene (with engine and sprite managers), observer and closures
    liveScenes,         \* the scenes (engine, managers) created and not disposed
    observers,          \* the scenes whose render observer is registered
    listeners,          \* per event type, the effect runs whose listener is registered
    listenerRun,        \* the run the listener effect last ran in (its closures)
    liveSounds,         \* the listener-effect runs whose two sounds are not disposed
    keyDownMapRef,      \* the keys whose entry is true
    touchStateRef, mouseStateRef,
    spritesCreated,     \* number of Sprite instances constructed so far
    disposed,           \* ids of the Sprite instances disposed so far
    lastOp,             \* the operation that produced this state
    caught,             \* the last executed render observer detected a collision
    vibration,          \* what the haptic call of the last executed render observer did
    particleSystemRef,  \* the catch effect the ref holds (0: null), by its number
    particleSystems,    \* the catch effects created so far: how often each was
                        \* disposed, and which of its timers is pending
    nFrames, nEvents    \* exploration budgets

gameVars  == <<score, key, isPaused, isGameStarted>>
spriteVars == <<catSpriteRef, sardineSpriteRef, dogSpriteRef,
                catVelocityRef, sardineVelocityRef, dogVelocityRef,
                spritesCreated, disposed>>
sceneVars == <<depCanvas, obs, sardineSpriteManagerRef, sceneRef, mounted,
               scenesCreated, liveScenes, observers, listeners, listenerRun,
               liveSounds>>
inputVars == <<keyDownMapRef, touchStateRef, mouseStateRef>>
fxVars == <<particleSystemRef, particleSystems>>
vars == <<gameVars, spriteVars, sceneVars, inputVars, fxVars, failAt, lastOp, caught,
          vibration, nFrames, nEvents>>

---------------------------------------------------------------------------
(* Bounds of the exploration *)
MaxFrames == 3
MaxEvents == 2
MaxKey    == 1
MaxDrag   == 30

(* Fixed-point unit and the game constants, GameScene.tsx lines 63-73 *)
Unit == 1000
ACCELERATION == 10
MAX_SPEED == 200
DRAG == 98
BOUNDS == 8000
COLLISION_DISTANCE == 1500
SARDINE_ESCAPE_SPEED == 60
SARDINE_AWARENESS_DISTANCE == 4000
SARDINE_SLOWDOWN == 95
TOUCH_SENSITIVITY == 10
MOUSE_SENSITIVITY == 20
DOG_CHASE_SPEED == 18

---------------------------------------------------------------------------
(* Arithmetic *)

\* a / b for b > 0, rounded toward zero
TruncDiv(a, b) == IF a >= 0 THEN a \div b ELSE -((-a) \div b)

\* v * pct / 100: multiplication by a factor such as 0.98
Scale(v, pct) == TruncDiv(v * pct, 100)

Max(a, b) == IF a > b THEN a ELSE b
Min(a, b) == IF a < b THEN a ELSE b

RECURSIVE SqrtSearch(_, _, _)
\* least r in lo..hi with r*r >= n (hi*hi >= n)
SqrtSearch(n, lo, hi) ==
    IF lo >= hi THEN hi
    ELSE CHOOSE r \in {IF mid * mid >= n THEN SqrtSearch(n, lo, mid)
                       ELSE SqrtSearch(n, mid + 1, hi) :
                           mid \in {(lo + hi) \div 2}} : TRUE

\* Math.sqrt, rounded up to the grid
CeilSqrt(n) == SqrtSearch(n, 0, 46340)

\* 16 * sqrt(dx^2 + dy^2): the length of a vector in sixteenths of a step
Norm16(dx, dy) ==
    LET s2 == dx * dx + dy * dy
    IN IF s2 <= 8000000 THEN CeilSqrt(s2 * 256) ELSE 16 * CeilSqrt(s2)

\* (Math.cos(a) * speed, Math.sin(a) * speed) for a = Math.atan2(dy, dx);
\* Math.atan2(0, 0) is 0
Heading(dx, dy, speed) ==
    IF dx = 0 /\ dy = 0 THEN [x |-> speed, y |-> 0]
    ELSE LET n == Norm16(dx, dy)
         IN [x |-> TruncDiv(dx * speed * 16, n),
             y |-> TruncDiv(dy * speed * 16, n)]

SqLen(v) == v.x * v.x + v.y * v.y

Zero == [x |-> 0, y |-> 0]

---------------------------------------------------------------------------
(* Sprites and the scene effect, GameScene.tsx lines 75-410 *)

\* a Sprite reference that is null
NoSprite == [set |-> FALSE, id |-> 0, x |-> 0, y |-> 0, invertU |-> FALSE]

\* new Sprite(...) placed at (x, y)
NewSprite(id, x, y, invertU) ==
    [set |-> TRUE, id |-> id, x |-> x, y |-> y, invertU |-> invertU]

\* the sprite references and velocities, as one value
Refs == [cat |-> catSpriteRef, sardine |-> sardineSpriteRef, dog |-> dogSpriteRef,
         catVelocity |-> catVelocityRef, sardineVelocity |-> sardineVelocityRef,
         dogVelocity |-> dogVelocityRef,
         created |-> spritesCreated, disposed |-> disposed]

SetRefs(r) ==
    /\ catSpriteRef' = r.cat
    /\ sardineSpriteRef' = r.sardine
    /\ dogSpriteRef' = r.dog
    /\ catVelocityRef' = r.catVelocity
    /\ sardineVelocityRef' = r.sardineVelocity
    /\ dogVelocityRef' = r.dogVelocity
    /\ spritesCreated' = r.created
    /\ disposed' = r.disposed

\* sprite.dispose(); ref = null, guarded by "if (ref)"
DisposedSet(r) ==
    r.disposed \cup {s.id : s \in {t \in {r.cat, r.sardine, r.dog} : t.set}}

\* the effect's cleanup: the three sprites are disposed and their references
\* cleared; the velocities stay
CleanupSprites(r) ==
    [r EXCEPT !.cat = NoSprite, !.sardine = NoSprite, !.dog = NoSprite,
              !.disposed = DisposedSet(r)]

\* spawn positions of the initial sprites
CatSpawn     == [x |-> -4 * Unit, y |-> 0]
SardineSpawn == [x |-> 4 * Unit, y |-> 0]
DogSpawn     == [x |-> 8 * Unit, y |-> 0]

\* the try block that creates the initial sprites; "fail" names the
\* constructor that throws, after which the catch block only logs
CreateSprites(r, fail) ==
    LET n == r.created
        c == [r EXCEPT !.cat = NewSprite(n + 1, CatSpawn.x, CatSpawn.y, FALSE),
                       !.catVelocity = Zero, !.created = n + 1]
        s == [c EXCEPT !.sardine = NewSprite(n + 2, SardineSpawn.x, SardineSpawn.y, TRUE),
                       !.sardineVelocity = Zero, !.created = n + 2]
        d == [s EXCEPT !.dog = NewSprite(n + 3, DogSpawn.x, DogSpawn.y, FALSE),
                       !.dogVelocity = Zero, !.created = n + 3]
    IN CASE fail = "cat" -> r
         [] fail = "sardine" -> c
         [] fail = "dog" -> s
         [] OTHER -> d

\* the dependency list [canvasRef.current, isGameStarted, antialias, isPaused,
\* onScoreUpdate] differs from the one of the previous render
SceneDepsChanged(started, paused) ==
    \/ ~depCanvas
    \/ started # obs.isGameStarted
    \/ paused # obs.isPaused

\* the event types of the handlers the listener effect adds and removes
HandlerTypes == {"keydown", "keyup", "touchstart", "touchmove", "touchend",
                 "mousedown", "mousemove", "mouseup"}

ListenerTypes == HandlerTypes \cup {"dragstart", "resize"}

\* the listener effect's cleanup, for the closures of run g: the eight
\* handlers and 'resize' (with that run's onResize) are removed
ListenerCleanup(L, g) ==
    [t \in ListenerTypes |->
        IF t \in HandlerTypes \cup {"resize"} THEN L[t] \ {g} ELSE L[t]]

\* the listener effect in run g: the eight handlers and 'dragstart' are added
ListenerSetup(L, g) ==
    [t \in ListenerTypes |->
        IF t \in HandlerTypes \cup {"dragstart"} THEN L[t] \cup {g} ELSE L[t]]

\* the scene effect in run g adds 'resize' with that run's onResize
ResizeSetup(L, g) == [L EXCEPT !["resize"] = @ \cup {g}]

\* the listener effect's dependency list [canvasRef.current] differs from the
\* one of the previous render
ListenerDepsChanged == ~depCanvas

\* A render of Game and GameScene with the given isGameStarted and isPaused,
\* applied to the references r: when the dependencies changed, the cleanup of
\* the previous scene runs (then the cleanup of the listener effect, when its
\* dependency changed) and the effect builds a new scene, new sprites and
\* a new render observer that closes over the new props (then the listener
\* effect runs again, when its dependency changed).
Render(r, started, paused) ==
    /\ depCanvas' = TRUE
    /\ sardineSpriteManagerRef' = TRUE
    /\ sceneRef' = TRUE
    /\ mounted' = mounted
    /\ IF SceneDepsChanged(started, paused)
       THEN LET g == scenesCreated + 1
                removed == IF ListenerDepsChanged
                           THEN ListenerCleanup(listeners, listenerRun)
                           ELSE listeners
                resized == ResizeSetup(removed, g)
            IN /\ SetRefs(CreateSprites(CleanupSprites(r), failAt))
               /\ obs' = [isGameStarted |-> started, isPaused |-> paused]
               /\ scenesCreated' = g
               /\ liveScenes' = (liveScenes \ {scenesCreated}) \cup {g}
               /\ observers' = (observers \ {scenesCreated}) \cup {g}
               /\ listeners' = IF ListenerDepsChanged
                               THEN ListenerSetup(resized, g) ELSE resized
               /\ listenerRun' = IF ListenerDepsChanged THEN g ELSE listenerRun
               /\ liveSounds' = IF ListenerDepsChanged
                                THEN (liveSounds \ {listenerRun}) \cup {g}
                                ELSE liveSounds
       ELSE /\ SetRefs(r)
            /\ UNCHANGED <<obs, scenesCreated, liveScenes, observers, listeners,
                           listenerRun, liveSounds>>

---------------------------------------------------------------------------
(* The render observer, GameScene.tsx lines 167-352 *)

\* faulty variant of ClampX: the horizontal clamp is missing
ClampX_Missing(x) == x

\* Math.max(-BOUNDS, Math.min(BOUNDS, x)) and the same with BOUNDS/2
ClampX(x) == Max(-BOUNDS, Min(BOUNDS, x))
ClampY(y) == Max(-(BOUNDS \div 2), Min(BOUNDS \div 2, y))

\* the observer's first guard: cat and sardine exist
SpritesReady(r) == r.cat.set /\ r.sardine.set

\* faulty variant of ObserverBranch: the paused guard is missing
ObserverBranch_NoPausedGuard(r, started, paused) ==
    IF ~(r.cat.set /\ r.sardine.set) THEN "notready"
    ELSE IF ~started THEN "pin"
    ELSE "run"

\* faulty variant of ObserverBranch: the not-started branch is missing
ObserverBranch_NoStartedGuard(r, started, paused) ==
    IF ~(r.cat.set /\ r.sardine.set) THEN "notready"
    ELSE IF paused THEN "paused"
    ELSE "run"

\* the early returns of the observer, in the order of the code: sprites not
\* ready, game not started (sprites pinned), paused; else the simulation runs
ObserverBranch(r, started, paused) ==
    IF ~SpritesReady(r) THEN "notready"
    ELSE IF ~started THEN "pin"
    ELSE IF paused THEN "paused"
    ELSE "run"

\* not started: the sprites are put back at their initial positions
PinSprites(r) ==
    [r EXCEPT !.cat.x = CatSpawn.x, !.cat.y = CatSpawn.y,
              !.sardine.x = SardineSpawn.x, !.sardine.y = SardineSpawn.y,
              !.dog = IF r.dog.set
                      THEN [r.dog EXCEPT !.x = DogSpawn.x, !.y = DogSpawn.y]
                      ELSE r.dog]

\* faulty variant of DogStep: a dog within COLLISION_DISTANCE of the cat stops
\* the cat
DogStep_StopsCat(r) ==
    IF ~r.dog.set THEN r
    ELSE LET v == Heading(r.cat.x - r.dog.x, r.cat.y - r.dog.y, DOG_CHASE_SPEED)
             near == (r.cat.x - r.dog.x) * (r.cat.x - r.dog.x)
                     + (r.cat.y - r.dog.y) * (r.cat.y - r.dog.y)
                     < COLLISION_DISTANCE * COLLISION_DISTANCE
         IN [r EXCEPT !.dogVelocity = v,
                      !.dog.x = ClampX(r.dog.x + v.x),
                      !.dog.y = ClampY(r.dog.y + v.y),
                      !.dog.invertU = IF v.x < -(Unit \div 100) THEN TRUE
                                      ELSE IF v.x > Unit \div 100 THEN FALSE
                                      ELSE r.dog.invertU,
                      !.catVelocity = IF near THEN Zero ELSE r.catVelocity]

\* faulty variant of DogStep: the velocity points from the cat to the dog
DogStep_Flees(r) ==
    IF ~r.dog.set THEN r
    ELSE LET v == Heading(r.dog.x - r.cat.x, r.dog.y - r.cat.y, DOG_CHASE_SPEED)
         IN [r EXCEPT !.dogVelocity = v,
                      !.dog.x = ClampX(r.dog.x + v.x),
                      !.dog.y = ClampY(r.dog.y + v.y),
                      !.dog.invertU = IF v.x < -(Unit \div 100) THEN TRUE
                                      ELSE IF v.x > Unit \div 100 THEN FALSE
                                      ELSE r.dog.invertU]

\* faulty variant of DogStep: the dog chases only a cat that is within
\* SARDINE_AWARENESS_DISTANCE and else keeps its velocity
DogStep_Gated(r) ==
    IF ~r.dog.set THEN r
    ELSE LET near == (r.cat.x - r.dog.x) * (r.cat.x - r.dog.x)
                     + (r.cat.y - r.dog.y) * (r.cat.y - r.dog.y)
                     < SARDINE_AWARENESS_DISTANCE * SARDINE_AWARENESS_DISTANCE
             v == IF near
                  THEN Heading(r.cat.x - r.dog.x, r.cat.y - r.dog.y, DOG_CHASE_SPEED)
                  ELSE r.dogVelocity
         IN [r EXCEPT !.dogVelocity = v,
                      !.dog.x = ClampX(r.dog.x + v.x),
                      !.dog.y = ClampY(r.dog.y + v.y),
                      !.dog.invertU = IF v.x < -(Unit \div 100) THEN TRUE
                                      ELSE IF v.x > Unit \div 100 THEN FALSE
                                      ELSE r.dog.invertU]

\* dog movement: velocity set toward the cat, position advanced and clamped,
\* sprite flipped on the horizontal velocity
DogStep(r) ==
    IF ~r.dog.set THEN r
    ELSE LET v == Heading(r.cat.x - r.dog.x, r.cat.y - r.dog.y, DOG_CHASE_SPEED)
         IN [r EXCEPT !.dogVelocity = v,
                      !.dog.x = ClampX(r.dog.x + v.x),
                      !.dog.y = ClampY(r.dog.y + v.y),
                      !.dog.invertU = IF v.x < -(Unit \div 100) THEN TRUE
                                      ELSE IF v.x > Unit \div 100 THEN FALSE
                                      ELSE r.dog.invertU]

\* faulty variant of KeyboardInput: a pressed direction sets the component
\* to plus or minus ACCELERATION instead of adding to it
KeyboardInput_Replaces(v, keys) ==
    LET left  == "ArrowLeft" \in keys \/ "a" \in keys
        right == "ArrowRight" \in keys \/ "d" \in keys
        up    == "ArrowUp" \in keys \/ "w" \in keys
        down  == "ArrowDown" \in keys \/ "s" \in keys
    IN [x |-> IF left \/ right
              THEN (IF right THEN ACCELERATION ELSE 0) - (IF left THEN ACCELERATION ELSE 0)
              ELSE v.x,
        y |-> IF up \/ down
              THEN (IF up THEN ACCELERATION ELSE 0) - (IF down THEN ACCELERATION ELSE 0)
              ELSE v.y]

\* keyboard input: each pressed direction adds or subtracts ACCELERATION
KeyboardInput(v, keys) ==
    LET left  == "ArrowLeft" \in keys \/ "a" \in keys
        right == "ArrowRight" \in keys \/ "d" \in keys
        up    == "ArrowUp" \in keys \/ "w" \in keys
        down  == "ArrowDown" \in keys \/ "s" \in keys
    IN [x |-> v.x - (IF left THEN ACCELERATION ELSE 0)
                  + (IF right THEN ACCELERATION ELSE 0),
        y |-> v.y + (IF up THEN ACCELERATION ELSE 0)
                  - (IF down THEN ACCELERATION ELSE 0)]

\* faulty variant of TouchInput: the drag vector is added to the velocity
TouchInput_Adds(v, touch) ==
    IF touch.active
    THEN [x |-> v.x + (touch.currentX - touch.startX) * TOUCH_SENSITIVITY,
          y |-> v.y - (touch.currentY - touch.startY) * TOUCH_SENSITIVITY]
    ELSE v

\* touch input: an active touch replaces the velocity
TouchInput(v, touch) ==
    IF touch.active
    THEN [x |-> (touch.currentX - touch.startX) * TOUCH_SENSITIVITY,
          y |-> -(touch.currentY - touch.startY) * TOUCH_SENSITIVITY]
    ELSE v

ApplyDrag(v) == [x |-> Scale(v.x, DRAG), y |-> Scale(v.y, DRAG)]

\* faulty variant of LimitSpeed: the speed limit is missing
LimitSpeed_Missing(v) == v

\* if (currentSpeed > MAX_SPEED) the velocity is scaled by MAX_SPEED / currentSpeed
LimitSpeed(v) ==
    IF SqLen(v) > MAX_SPEED * MAX_SPEED
    THEN LET n == Norm16(v.x, v.y)
         IN [x |-> TruncDiv(v.x * MAX_SPEED * 16, n),
             y |-> TruncDiv(v.y * MAX_SPEED * 16, n)]
    ELSE v

\* the cat's velocity for this frame
CatVelocity(v, keys, touch) ==
    LimitSpeed(ApplyDrag(TouchInput(KeyboardInput(v, keys), touch)))

\* cat movement: position advanced, sprite flipped, position clamped
CatStep(r, keys, touch) ==
    LET v == CatVelocity(r.catVelocity, keys, touch)
    IN [r EXCEPT !.catVelocity = v,
                 !.cat.x = ClampX(r.cat.x + v.x),
                 !.cat.y = ClampY(r.cat.y + v.y),
                 !.cat.invertU = IF v.x < -(Unit \div 100) THEN TRUE
                                 ELSE IF v.x > Unit \div 100 THEN FALSE
                                 ELSE r.cat.invertU]

\* dx * dx + dy * dy of "distance", computed after the cat has moved
CatSardineSq(r) ==
    (r.cat.x - r.sardine.x) * (r.cat.x - r.sardine.x)
    + (r.cat.y - r.sardine.y) * (r.cat.y - r.sardine.y)

\* distance < SARDINE_AWARENESS_DISTANCE
Aware(d2) == d2 < SARDINE_AWARENESS_DISTANCE * SARDINE_AWARENESS_DISTANCE

\* faulty variant of SardineVelocity: the escape velocity is added to the
\* previous velocity
SardineVelocity_Accumulates(r) ==
    IF Aware(CatSardineSq(r))
    THEN LET h == Heading(r.cat.x - r.sardine.x, r.cat.y - r.sardine.y,
                          SARDINE_ESCAPE_SPEED)
         IN [x |-> r.sardineVelocity.x - h.x, y |-> r.sardineVelocity.y - h.y]
    ELSE [x |-> Scale(r.sardineVelocity.x, SARDINE_SLOWDOWN),
          y |-> Scale(r.sardineVelocity.y, SARDINE_SLOWDOWN)]

\* faulty variant of SardineVelocity: far from the cat the velocity is kept
SardineVelocity_NoSlowdown(r) ==
    IF Aware(CatSardineSq(r))
    THEN LET h == Heading(r.cat.x - r.sardine.x, r.cat.y - r.sardine.y,
                          SARDINE_ESCAPE_SPEED)
         IN [x |-> -h.x, y |-> -h.y]
    ELSE r.sardineVelocity

\* faulty variant of SardineVelocity: the escape velocity is ESCAPE_SPEED on
\* each axis, by the sign of the offset, instead of along the direction
SardineVelocity_PerAxis(r) ==
    IF Aware(CatSardineSq(r))
    THEN LET sgn(d) == IF d > 0 THEN 1 ELSE IF d < 0 THEN -1 ELSE 0
         IN [x |-> -sgn(r.cat.x - r.sardine.x) * SARDINE_ESCAPE_SPEED,
             y |-> -sgn(r.cat.y - r.sardine.y) * SARDINE_ESCAPE_SPEED]
    ELSE [x |-> Scale(r.sardineVelocity.x, SARDINE_SLOWDOWN),
          y |-> Scale(r.sardineVelocity.y, SARDINE_SLOWDOWN)]

\* the sardine's velocity: away from the cat when aware, else slowed down
SardineVelocity(r) ==
    IF Aware(CatSardineSq(r))
    THEN LET h == Heading(r.cat.x - r.sardine.x, r.cat.y - r.sardine.y,
                          SARDINE_ESCAPE_SPEED)
         IN [x |-> -h.x, y |-> -h.y]
    ELSE [x |-> Scale(r.sardineVelocity.x, SARDINE_SLOWDOWN),
          y |-> Scale(r.sardineVelocity.y, SARDINE_SLOWDOWN)]

\* sardine movement: position advanced and clamped, sprite flipped
SardineStep(r) ==
    LET v == SardineVelocity(r)
    IN [r EXCEPT !.sardineVelocity = v,
                 !.sardine.x = ClampX(r.sardine.x + v.x),
                 !.sardine.y = ClampY(r.sardine.y + v.y),
                 !.sardine.invertU = IF v.x > Unit \div 100 THEN TRUE
                                     ELSE IF v.x < -(Unit \div 100) THEN FALSE
                                     ELSE r.sardine.invertU]

\* faulty variant of Collides: distance <= COLLISION_DISTANCE
Collides_Inclusive(d2) == d2 <= COLLISION_DISTANCE * COLLISION_DISTANCE

\* distance < COLLISION_DISTANCE
Collides(d2) == d2 < COLLISION_DISTANCE * COLLISION_DISTANCE

\* the values Math.random() * 14 - 7 and Math.random() * 6 - 3 can take
RandomX == (-7 * Unit) .. (7 * Unit - 1)
RandomY == (-3 * Unit) .. (3 * Unit - 1)

\* faulty variant of CreateSardine: the sardine's velocity is not reset
CreateSardine_KeepsVelocity(r, p, manager, scene) ==
    IF ~manager \/ ~scene THEN r
    ELSE [r EXCEPT !.sardine = NewSprite(r.created + 1, p.x, p.y, TRUE),
                   !.created = r.created + 1]

\* createSardine(position)
CreateSardine(r, p, manager, scene) ==
    IF ~manager \/ ~scene THEN r
    ELSE LET old == IF r.sardine.set THEN {r.sardine.id} ELSE {}
         IN [r EXCEPT !.sardine = NewSprite(r.created + 1, p.x, p.y, TRUE),
                      !.created = r.created + 1,
                      !.disposed = r.disposed \cup old,
                      !.sardineVelocity = Zero]

\* the collision branch: the sardine is disposed and a new one created at p
Respawn(r, p, manager, scene) ==
    CreateSardine([r EXCEPT !.sardine = NoSprite,
                            !.disposed = r.disposed \cup {r.sardine.id}],
                  p, manager, scene)

\* what navigator.vibrate does in this browser: it works, 'vibrate' is not in
\* navigator, or the call throws
Haptics == {"ok", "absent", "throws"}

\* faulty variant of Vibrate: no try / catch around the call
Vibrate_NoCatch(h) ==
    CASE h = "absent" -> "skipped"
      [] h = "throws" -> "thrown"
      [] OTHER -> "vibrated"

\* try { if ('vibrate' in navigator) navigator.vibrate(...) } catch { log }:
\* the outcome for the render observer ("thrown": the exception leaves it)
Vibrate(h) ==
    CASE h = "absent" -> "skipped"
      [] h = "throws" -> "ignored"
      [] OTHER -> "vibrated"

\* the three movements of an executed simulation step, before the collision
\* check; the distance of the collision check is the one the sardine's
\* movement was computed from
\* (each intermediate state is bound to its value once)
Moved(r, keys, touch) ==
    CHOOSE m \in {SardineStep(c) : c \in {CatStep(d, keys, touch) : d \in {DogStep(r)}}} : TRUE

StepDistanceSq(r, keys, touch) ==
    CHOOSE q \in {CatSardineSq(c) : c \in {CatStep(d, keys, touch) : d \in {DogStep(r)}}} : TRUE

---------------------------------------------------------------------------
(* Inputs explored *)

\* the keys pressed and released: two opposite arrows and one letter
Keys == {"ArrowRight", "ArrowLeft", "w"}

\* pointer positions (clientX, clientY) of touch and mouse events
Points == {[x |-> 0, y |-> 0], [x |-> MaxDrag, y |-> 0],
           [x |-> -(MaxDrag \div 3), y |-> MaxDrag \div 2]}

\* values of the random respawn position that are explored
RespawnPoints == {[x |-> -7 * Unit, y |-> -3 * Unit],
                  [x |-> Unit \div 2, y |-> 0],
                  [x |-> 7 * Unit - 1, y |-> 3 * Unit - 1]}

\* the constructors that may throw in the try block of the scene effect
FailModes == {"none", "cat", "sardine", "dog"}

IdleDrag == [active |-> FALSE, startX |-> 0, startY |-> 0,
             currentX |-> 0, currentY |-> 0]

---------------------------------------------------------------------------
(* Operations *)

\* faulty variant of handleScoreUpdate: the score is incremented twice
handleScoreUpdate_Twice(prev) == prev + 2

\* Game.tsx handleScoreUpdate: setScore(prev => prev + 1)
handleScoreUpdate(prev) == prev + 1

\* the catch effect: the effect the ref holds is disposed, a new one is
\* created, stored in the ref and started, and its first timer is set
createCatchEffect ==
    IF ~sceneRef THEN UNCHANGED fxVars
    ELSE LET prev == IF particleSystemRef # 0
                     THEN [particleSystems EXCEPT ![particleSystemRef].disposals = @ + 1]
                     ELSE particleSystems
         IN /\ particleSystems' = Append(prev, [disposals |-> 0, timer |-> "stop"])
            /\ particleSystemRef' = Len(particleSystems) + 1

\* One invocation of the render observer by the render loop.  A collision
\* calls onScoreUpdate, whose state change renders Game and GameScene again.
Observer ==
    /\ mounted /\ observers # {}
    /\ lastOp' = "frame"
    /\ UNCHANGED <<key, isPaused, isGameStarted, inputVars, failAt, nEvents>>
    /\ LET b == ObserverBranch(Refs, obs.isGameStarted, obs.isPaused)
       IN
       IF b = "notready" \/ b = "paused"
       THEN /\ caught' = FALSE /\ vibration' = "none"
            /\ UNCHANGED <<score, spriteVars, sceneVars, fxVars>>
       ELSE IF b = "pin"
       THEN /\ caught' = FALSE /\ vibration' = "none"
            /\ SetRefs(PinSprites(Refs))
            /\ UNCHANGED <<score, sceneVars, fxVars>>
       ELSE LET m == Moved(Refs, keyDownMapRef, touchStateRef)
                d2 == StepDistanceSq(Refs, keyDownMapRef, touchStateRef)
            IN IF Collides(d2)
               THEN \E p \in RespawnPoints, h \in Haptics :
                      /\ caught' = TRUE
                      /\ vibration' = Vibrate(h)
                      /\ createCatchEffect
                      /\ score' = handleScoreUpdate(score)
                      /\ Render(Respawn(m, p, sardineSpriteManagerRef, sceneRef),
                                isGameStarted, isPaused)
               ELSE /\ caught' = FALSE /\ vibration' = "none"
                    /\ SetRefs(m)
                    /\ UNCHANGED <<score, sceneVars, fxVars>>

\* a frame of the render loop, counted against the frame budget
Frame ==
    /\ nFrames < MaxFrames
    /\ nFrames' = nFrames + 1
    /\ Observer

\* a frame of the render loop outside the frame budget
FrameUncounted ==
    /\ UNCHANGED nFrames
    /\ Observer

\* the first timer of catch effect i (200 ms after its creation) stops it and
\* starts its second timer; timers of equal delay fire in the order they
\* were set
StopTimer(i) ==
    /\ particleSystems[i].timer = "stop"
    /\ \A j \in 1..(i - 1) : particleSystems[j].timer # "stop"
    /\ particleSystems' = [particleSystems EXCEPT ![i].timer = "dispose"]
    /\ lastOp' = "stoptimer"
    /\ caught' = caught /\ vibration' = vibration
    /\ UNCHANGED <<gameVars, spriteVars, sceneVars, inputVars, particleSystemRef,
                   failAt, nFrames, nEvents>>

\* the second timer of catch effect i (500 ms later) disposes it and sets
\* particleSystemRef to null
DisposeTimer(i) ==
    /\ particleSystems[i].timer = "dispose"
    /\ \A j \in 1..(i - 1) : particleSystems[j].timer = "done"
    /\ particleSystems' = [particleSystems EXCEPT ![i].timer = "done",
                                                  ![i].disposals = @ + 1]
    /\ particleSystemRef' = 0
    /\ lastOp' = "disposetimer"
    /\ caught' = caught /\ vibration' = vibration
    /\ UNCHANGED <<gameVars, spriteVars, sceneVars, inputVars,
                   failAt, nFrames, nEvents>>

\* an input event is explored
Input(op) ==
    /\ mounted
    /\ nEvents < MaxEvents
    /\ nEvents' = nEvents + 1
    /\ lastOp' = op
    /\ caught' = caught /\ vibration' = vibration
    /\ UNCHANGED <<fxVars, failAt, nFrames>>

handleKeyDown(k) ==
    /\ Input("keydown")
    /\ keyDownMapRef' = keyDownMapRef \cup {k}
    /\ UNCHANGED <<gameVars, spriteVars, sceneVars, touchStateRef, mouseStateRef>>

handleKeyUp(k) ==
    /\ Input("keyup")
    /\ keyDownMapRef' = keyDownMapRef \ {k}
    /\ UNCHANGED <<gameVars, spriteVars, sceneVars, touchStateRef, mouseStateRef>>

handleTouchStart(p) ==
    /\ Input("touchstart")
    /\ touchStateRef' = [active |-> TRUE, startX |-> p.x, startY |-> p.y,
                         currentX |-> p.x, currentY |-> p.y]
    /\ UNCHANGED <<gameVars, spriteVars, sceneVars, keyDownMapRef, mouseStateRef>>

\* the canvas handler of GameScene, then the window handler of Game, which
\* sets the joystick position (a render) when the joystick is shown
handleTouchMove(p) ==
    /\ Input("touchmove")
    /\ touchStateRef' = IF touchStateRef.active
                        THEN [touchStateRef EXCEPT !.currentX = p.x, !.currentY = p.y]
                        ELSE touchStateRef
    /\ IF isGameStarted
       THEN Render(Refs, isGameStarted, isPaused)
       ELSE UNCHANGED <<spriteVars, sceneVars>>
    /\ UNCHANGED <<gameVars, keyDownMapRef, mouseStateRef>>

\* the canvas handler of GameScene, then the window handler of Game, which
\* resets the joystick position (a render)
handleTouchEnd ==
    /\ Input("touchend")
    /\ touchStateRef' = [touchStateRef EXCEPT !.active = FALSE]
    /\ Render([Refs EXCEPT !.catVelocity = Zero], isGameStarted, isPaused)
    /\ UNCHANGED <<gameVars, keyDownMapRef, mouseStateRef>>

handleMouseDown(p) ==
    /\ Input("mousedown")
    /\ mouseStateRef' = [active |-> TRUE, startX |-> p.x, startY |-> p.y,
                         currentX |-> p.x, currentY |-> p.y]
    /\ UNCHANGED <<gameVars, spriteVars, sceneVars, keyDownMapRef, touchStateRef>>

\* the velocity a mouse move adds
MouseDelta(m, p) ==
    [x |-> (p.x - m.startX) * MOUSE_SENSITIVITY,
     y |-> -((p.y - m.startY) * MOUSE_SENSITIVITY)]

\* faulty variant of handleMouseMove: the anchor stays where the button went
\* down, as the touch handler leaves it
handleMouseMove_KeepsAnchor(p) ==
    /\ Input("mousemove")
    /\ IF mouseStateRef.active
       THEN /\ mouseStateRef' = [mouseStateRef EXCEPT
                                    !.currentX = p.x, !.currentY = p.y]
            /\ catVelocityRef' =
                 [x |-> catVelocityRef.x + MouseDelta(mouseStateRef, p).x,
                  y |-> catVelocityRef.y + MouseDelta(mouseStateRef, p).y]
       ELSE UNCHANGED <<mouseStateRef, catVelocityRef>>
    /\ UNCHANGED <<gameVars, catSpriteRef, sardineSpriteRef, dogSpriteRef,
                   sardineVelocityRef, dogVelocityRef, spritesCreated, disposed,
                   sceneVars, keyDownMapRef, touchStateRef>>

handleMouseMove(p) ==
    /\ Input("mousemove")
    /\ IF mouseStateRef.active
       THEN /\ mouseStateRef' = [mouseStateRef EXCEPT
                                    !.currentX = p.x, !.currentY = p.y,
                                    !.startX = p.x, !.startY = p.y]
            /\ catVelocityRef' =
                 [x |-> catVelocityRef.x + MouseDelta(mouseStateRef, p).x,
                  y |-> catVelocityRef.y + MouseDelta(mouseStateRef, p).y]
       ELSE UNCHANGED <<mouseStateRef, catVelocityRef>>
    /\ UNCHANGED <<gameVars, catSpriteRef, sardineSpriteRef, dogSpriteRef,
                   sardineVelocityRef, dogVelocityRef, spritesCreated, disposed,
                   sceneVars, keyDownMapRef, touchStateRef>>

\* faulty variant of handleMouseUp: the release also zeroes the velocity, as
\* the touch handler does
handleMouseUp_Stops ==
    /\ Input("mouseup")
    /\ mouseStateRef' = [mouseStateRef EXCEPT !.active = FALSE]
    /\ catVelocityRef' = Zero
    /\ UNCHANGED <<gameVars, catSpriteRef, sardineSpriteRef, dogSpriteRef,
                   sardineVelocityRef, dogVelocityRef, spritesCreated, disposed,
                   sceneVars, keyDownMapRef, touchStateRef>>

handleMouseUp ==
    /\ Input("mouseup")
    /\ mouseStateRef' = [mouseStateRef EXCEPT !.active = FALSE]
    /\ UNCHANGED <<gameVars, spriteVars, sceneVars, keyDownMapRef, touchStateRef>>

\* the Start Game button, shown while the game has not started
handleStartGame ==
    /\ mounted
    /\ ~isGameStarted
    /\ isGameStarted' = TRUE
    /\ Render(Refs, TRUE, isPaused)
    /\ lastOp' = "start"
    /\ caught' = caught /\ vibration' = vibration
    /\ UNCHANGED <<score, key, isPaused, inputVars, fxVars, failAt, nFrames, nEvents>>

\* the Pause / Resume button, shown once the game has started
handlePause ==
    /\ isGameStarted
    /\ Input("pause")
    /\ isPaused' = ~isPaused
    /\ Render(Refs, isGameStarted, ~isPaused)
    /\ UNCHANGED <<score, key, isGameStarted, inputVars>>

\* faulty variant of handleRestart: the score is kept
handleRestart_KeepsScore ==
    /\ mounted
    /\ isGameStarted
    /\ key < MaxKey
    /\ score' = score
    /\ key' = key + 1
    /\ isPaused' = FALSE
    /\ Render(Refs, isGameStarted, FALSE)
    /\ lastOp' = "restart"
    /\ caught' = caught /\ vibration' = vibration
    /\ UNCHANGED <<isGameStarted, inputVars, fxVars, failAt, nFrames, nEvents>>

\* faulty variant of handleRestart: a paused game stays paused
handleRestart_KeepsPaused ==
    /\ mounted
    /\ isGameStarted
    /\ key < MaxKey
    /\ score' = 0
    /\ key' = key + 1
    /\ isPaused' = isPaused
    /\ Render(Refs, isGameStarted, isPaused)
    /\ lastOp' = "restart"
    /\ caught' = caught /\ vibration' = vibration
    /\ UNCHANGED <<isGameStarted, inputVars, fxVars, failAt, nFrames, nEvents>>

\* the Restart button, shown once the game has started
handleRestart ==
    /\ mounted
    /\ isGameStarted
    /\ key < MaxKey
    /\ score' = 0
    /\ key' = key + 1
    /\ isPaused' = FALSE
    /\ Render(Refs, isGameStarted, FALSE)
    /\ lastOp' = "restart"
    /\ caught' = caught /\ vibration' = vibration
    /\ UNCHANGED <<isGameStarted, inputVars, fxVars, failAt, nFrames, nEvents>>

\* the component is unmounted: the cleanups of the scene effect and of the
\* listener effect run, in this order
Unmount ==
    /\ mounted
    /\ mounted' = FALSE
    /\ SetRefs(CleanupSprites(Refs))
    /\ observers' = observers \ {scenesCreated}
    /\ liveScenes' = liveScenes \ {scenesCreated}
    /\ listeners' = ListenerCleanup(listeners, listenerRun)
    /\ liveSounds' = liveSounds \ {listenerRun}
    /\ sardineSpriteManagerRef' = FALSE
    /\ lastOp' = "unmount"
    /\ UNCHANGED <<gameVars, inputVars, fxVars, depCanvas, obs, sceneRef,
                   scenesCreated, listenerRun, failAt, caught, vibration,
                   nFrames, nEvents>>

---------------------------------------------------------------------------
(* Specifications *)

NoRefs == [cat |-> NoSprite, sardine |-> NoSprite, dog |-> NoSprite,
           catVelocity |-> Zero, sardineVelocity |-> Zero, dogVelocity |-> Zero,
           created |-> 0, disposed |-> {}]

InitRefs(r) ==
    /\ catSpriteRef = r.cat
    /\ sardineSpriteRef = r.sardine
    /\ dogSpriteRef = r.dog
    /\ catVelocityRef = r.catVelocity
    /\ sardineVelocityRef = r.sardineVelocity
    /\ dogVelocityRef = r.dogVelocity
    /\ spritesCreated = r.created
    /\ disposed = r.disposed

\* the listeners after the mount (run 1 of both effects) and after the render
\* of Start Game (run 2 of both effects)
MountListeners ==
    ListenerSetup(ResizeSetup([t \in ListenerTypes |-> {}], 1), 1)

StartListeners ==
    ListenerSetup(ResizeSetup(ListenerCleanup(MountListeners, 1), 2), 2)

\* the component is mounted and run g of both effects is the current one
InitRegistry(g, L) ==
    /\ mounted = TRUE
    /\ scenesCreated = g
    /\ liveScenes = {g}
    /\ observers = {g}
    /\ listeners = L
    /\ listenerRun = g
    /\ liveSounds = {g}

\* the state after the first render and its effects
Init ==
    /\ score = 0 /\ key = 0 /\ isPaused = FALSE /\ isGameStarted = FALSE
    /\ depCanvas = FALSE
    /\ obs = [isGameStarted |-> FALSE, isPaused |-> FALSE]
    /\ failAt \in FailModes
    /\ InitRefs(CreateSprites(NoRefs, failAt))
    /\ sardineSpriteManagerRef = TRUE /\ sceneRef = TRUE
    /\ InitRegistry(1, MountListeners)
    /\ keyDownMapRef = {}
    /\ touchStateRef = IdleDrag /\ mouseStateRef = IdleDrag
    /\ lastOp = "init" /\ caught = FALSE /\ vibration = "none"
    /\ particleSystemRef = 0 /\ particleSystems = <<>>
    /\ nFrames = 0 /\ nEvents = 0

Next ==
    \/ Frame
    \/ \E k \in Keys : handleKeyDown(k)
    \/ \E k \in Keys : handleKeyUp(k)
    \/ \E p \in Points : handleTouchStart(p)
    \/ \E p \in Points : handleTouchMove(p)
    \/ handleTouchEnd
    \/ \E p \in Points : handleMouseDown(p)
    \/ \E p \in Points : handleMouseMove(p)
    \/ handleMouseUp
    \/ handleStartGame
    \/ handlePause
    \/ handleRestart

Spec == Init /\ [][Next]_vars

\* the component's whole life, from the mount to the unmount
NextLife == Next \/ Unmount

SpecLife == Init /\ [][NextLife]_vars

\* States of a started, running session after its first capture, with every
\* key, touch and mouse button released; one frame and one event of the
\* exploration budgets are counted as spent.  Each is a cat (position, velocity),
\* a sardine (position, velocity) and a dog position:
\*   - the sardine has just respawned (zero velocity) at 1.0, 1.499, 1.5, 1.6,
\*     3.9, 3.95 and 5.0 from the cat, on an axis and on the 3-4-5 diagonal; the cat
\*     rests at (0,0) (a touch ended after the capture);
\*   - the respawned sardine has fled into the top right corner and keeps its
\*     escape velocity; the cat follows at 2.2 from it, at nearly full speed;
\*   - the cat has caught the sardine in the top right corner and still moves
\*     right at full speed; the dog has reached the cat; the new sardine has
\*     respawned far away.
Pt(x, y) == [x |-> x, y |-> y]

MidScenarios ==
    {[cat |-> Pt(0, 0), catV |-> Zero, sardine |-> s, sardineV |-> Zero,
      dog |-> Pt(2 * Unit, Unit)] :
        s \in {Pt(Unit, 0), Pt(1499, 0), Pt(1500, 0), Pt(1600, 0),
               Pt(900, 1200), Pt(899, 1200), Pt(3900, 0), Pt(3950, 0),
               Pt(5 * Unit, 0)}}
    \cup
    {[cat |-> Pt(6 * Unit, 3 * Unit), catV |-> Pt(178, 89),
      sardine |-> Pt(BOUNDS, BOUNDS \div 2), sardineV |-> Pt(53, 26),
      dog |-> Pt(2 * Unit, Unit)],
     [cat |-> Pt(BOUNDS, BOUNDS \div 2), catV |-> Pt(MAX_SPEED, 0),
      sardine |-> Pt(-5 * Unit, 0), sardineV |-> Zero,
      dog |-> Pt(BOUNDS, BOUNDS \div 2)]}

\* the sprite ids are those of the session: the mount creates sprites 1-3,
\* the start re-creates them as 4-6, the capture creates sardine 7
MidRefs(m) ==
    LET dv == Heading(m.cat.x - m.dog.x, m.cat.y - m.dog.y, DOG_CHASE_SPEED)
    IN [cat |-> NewSprite(4, m.cat.x, m.cat.y, FALSE),
        sardine |-> NewSprite(7, m.sardine.x, m.sardine.y, TRUE),
        dog |-> NewSprite(6, m.dog.x, m.dog.y, dv.x < 0),
        catVelocity |-> m.catV, sardineVelocity |-> m.sardineV,
        dogVelocity |-> dv,
        created |-> 7, disposed |-> {1, 2, 3, 5}]

\* the catch effect of the first capture, after both of its timers fired
DoneEffect == [disposals |-> 1, timer |-> "done"]

MidSession ==
    /\ score = 1 /\ key = 0 /\ isPaused = FALSE /\ isGameStarted = TRUE
    /\ depCanvas = TRUE
    /\ obs = [isGameStarted |-> TRUE, isPaused |-> FALSE]
    /\ failAt = "none"
    /\ \E m \in MidScenarios : InitRefs(MidRefs(m))
    /\ sardineSpriteManagerRef = TRUE /\ sceneRef = TRUE
    /\ InitRegistry(2, StartListeners)
    /\ keyDownMapRef = {}
    /\ touchStateRef = IdleDrag /\ mouseStateRef = IdleDrag
    /\ lastOp = "init" /\ caught = FALSE /\ vibration = "none"
    /\ particleSystemRef = 0 /\ particleSystems = <<DoneEffect>>
    /\ nFrames = 1 /\ nEvents = 1

\* a session followed from its construction or from one of the mid-session
\* states
InitMid == Init \/ MidSession

SpecMid == InitMid /\ [][Next]_vars

\* the session with the timers of its catch effects
NextFx ==
    \/ Next
    \/ \E i \in DOMAIN particleSystems : StopTimer(i)
    \/ \E i \in DOMAIN particleSystems : DisposeTimer(i)

SpecFx == InitMid /\ [][NextFx]_vars

\* States of a started, running session in which the cat has come to rest
\* with every key, touch and mouse button released and the sardine, at rest,
\* is out of its awareness distance: the cat at its spawn point, at (0,0) or
\* in the top right corner, the dog on top of it, a few steps from it or far
\* from it.
ChaseScenarios ==
    {[cat |-> CatSpawn, catV |-> Zero, sardine |-> SardineSpawn, sardineV |-> Zero,
      dog |-> DogSpawn]}
    \cup
    {[cat |-> Pt(0, 0), catV |-> Zero, sardine |-> Pt(5 * Unit, 0), sardineV |-> Zero,
      dog |-> d] :
        d \in {Pt(2 * Unit, Unit), Pt(0, 0), Pt(-30, 7), Pt(5, -3),
               Pt(-200, -3 * Unit)}}
    \cup
    {[cat |-> Pt(BOUNDS, BOUNDS \div 2), catV |-> Zero,
      sardine |-> Pt(-5 * Unit, 0), sardineV |-> Zero, dog |-> d] :
        d \in {Pt(BOUNDS, BOUNDS \div 2), Pt(BOUNDS - 100, BOUNDS \div 2 - 10)}}

ChaseSession ==
    /\ score = 1 /\ key = 0 /\ isPaused = FALSE /\ isGameStarted = TRUE
    /\ depCanvas = TRUE
    /\ obs = [isGameStarted |-> TRUE, isPaused |-> FALSE]
    /\ failAt = "none"
    /\ \E m \in ChaseScenarios : InitRefs(MidRefs(m))
    /\ sardineSpriteManagerRef = TRUE /\ sceneRef = TRUE
    /\ InitRegistry(2, StartListeners)
    /\ keyDownMapRef = {}
    /\ touchStateRef = IdleDrag /\ mouseStateRef = IdleDrag
    /\ lastOp = "init" /\ caught = FALSE /\ vibration = "none"
    /\ particleSystemRef = 0 /\ particleSystems = <<DoneEffect>>
    /\ nFrames = 0 /\ nEvents = 0

\* the render loop of such a session with no input at all: the engine calls
\* the observer once per display frame for as long as the scene exists
SpecChase == ChaseSession /\ [][FrameUncounted]_vars /\ WF_vars(FrameUncounted)

\* A started session in the middle of a mouse drag: after the mount and Start
\* Game the button went down at (0,0) and the pointer moved to (MaxDrag,0),
\* which gave the cat the velocity of that move; no frame has run since.
DragStart == [active |-> TRUE, startX |-> 0, startY |-> 0,
              currentX |-> 0, currentY |-> 0]

DragSession ==
    /\ score = 0 /\ key = 0 /\ isPaused = FALSE /\ isGameStarted = TRUE
    /\ depCanvas = TRUE
    /\ obs = [isGameStarted |-> TRUE, isPaused |-> FALSE]
    /\ failAt = "none"
    /\ InitRefs([CreateSprites(CleanupSprites(CreateSprites(NoRefs, "none")), "none")
                   EXCEPT !.catVelocity = MouseDelta(DragStart, [x |-> MaxDrag, y |-> 0])])
    /\ sardineSpriteManagerRef = TRUE /\ sceneRef = TRUE
    /\ InitRegistry(2, StartListeners)
    /\ keyDownMapRef = {}
    /\ touchStateRef = IdleDrag
    /\ mouseStateRef = [DragStart EXCEPT !.startX = MaxDrag, !.currentX = MaxDrag]
    /\ lastOp = "mousemove" /\ caught = FALSE /\ vibration = "none"
    /\ particleSystemRef = 0 /\ particleSystems = <<>>
    /\ nFrames = 1 /\ nEvents = 0

\* a session followed from its construction or from the middle of a drag
InitDrag == Init \/ DragSession

SpecDrag == InitDrag /\ [][Next]_vars

---------------------------------------------------------------------------
(* Properties *)

Sprites == {catSpriteRef, sardineSpriteRef, dogSpriteRef}

InBounds(s) ==
    /\ -BOUNDS <= s.x /\ s.x <= BOUNDS
    /\ -(BOUNDS \div 2) <= s.y /\ s.y <= BOUNDS \div 2

At(s, p) == s.x = p.x /\ s.y = p.y

\* a frame in which the render observer ran the simulation
SimulationStep ==
    /\ lastOp' = "frame"
    /\ isGameStarted /\ ~isPaused
    /\ catSpriteRef.set /\ sardineSpriteRef.set

\* the square of the distance the step compares with COLLISION_DISTANCE: from
\* the cat after its move to the sardine before its move
EvaluatedSq ==
    (catSpriteRef'.x - sardineSpriteRef.x) * (catSpriteRef'.x - sardineSpriteRef.x)
    + (catSpriteRef'.y - sardineSpriteRef.y) * (catSpriteRef'.y - sardineSpriteRef.y)

\* C1: in every reachable state each existing body (cat, sardine, dog) has
\* position.x in [-BOUNDS, BOUNDS] and position.y in [-BOUNDS/2, BOUNDS/2].
C1_PositionsInBounds == \A s \in Sprites : s.set => InBounds(s)

\* C1 witness: a simulation step has just pushed the cat against the right
\* wall (it still has rightward velocity and sits exactly on the bound).
C1_Witness ==
    /\ lastOp = "frame" /\ isGameStarted /\ ~isPaused
    /\ catSpriteRef.set /\ catSpriteRef.x = BOUNDS /\ catVelocityRef.x > 0

\* C2: every executed simulation step changes the score by exactly 1 when the
\* distance it evaluated is below COLLISION_DISTANCE and by 0 otherwise.
C2_ScorePerStep ==
    [][SimulationStep =>
         score' = score + (IF EvaluatedSq < COLLISION_DISTANCE * COLLISION_DISTANCE
                           THEN 1 ELSE 0)]_vars

\* C2 witness: a step detected a capture and the score went from 1 to 2.
C2_Witness == lastOp = "frame" /\ caught /\ score = 2

\* C3 (as claimed): after Restart the score is 0 and every body is at its
\* spawn position with zero velocity.
AllAtSpawn ==
    /\ catSpriteRef.set => At(catSpriteRef, CatSpawn) /\ catVelocityRef = Zero
    /\ sardineSpriteRef.set => At(sardineSpriteRef, SardineSpawn) /\ sardineVelocityRef = Zero
    /\ dogSpriteRef.set => At(dogSpriteRef, DogSpawn) /\ dogVelocityRef = Zero

C3_RestartResets == [][lastOp' = "restart" => (score' = 0 /\ AllAtSpawn')]_vars

\* position, velocity and facing of the three bodies
BodyState ==
    <<[s \in {"cat", "sardine", "dog"} |->
         LET b == Refs[s] IN <<b.set, b.x, b.y, b.invertU>>],
      catVelocityRef, sardineVelocityRef, dogVelocityRef>>

\* C4 (as claimed): a toggle of Paused leaves position, velocity and facing of
\* every body as they were.
C4_PauseKeepsBodies == [][lastOp' = "pause" => BodyState' = BodyState]_vars

\* C5: while started and paused, a frame changes no position, velocity or
\* facing of any body and does not change the score.
C5_PausedFrameNoOp ==
    [][(lastOp' = "frame" /\ isGameStarted /\ isPaused)
         => (BodyState' = BodyState /\ score' = score)]_vars

\* C5 witness: a frame ran while the game was paused with a direction key
\* held down.
C5_Witness ==
    /\ lastOp = "frame" /\ isGameStarted /\ isPaused
    /\ keyDownMapRef # {} /\ catSpriteRef.set /\ sardineSpriteRef.set

\* C6: at the end of every executed simulation step the cat's speed is at
\* most MAX_SPEED and its position moved by at most MAX_SPEED.
C6_PlayerSpeedLimited ==
    [][SimulationStep =>
         /\ SqLen(catVelocityRef') <= MAX_SPEED * MAX_SPEED
         /\ (catSpriteRef'.x - catSpriteRef.x) * (catSpriteRef'.x - catSpriteRef.x)
            + (catSpriteRef'.y - catSpriteRef.y) * (catSpriteRef'.y - catSpriteRef.y)
            <= MAX_SPEED * MAX_SPEED]_vars

\* C6 witness: after a step with an active touch drag wider than the limit
\* the cat moves at exactly MAX_SPEED.
C6_Witness ==
    /\ lastOp = "frame" /\ isGameStarted /\ ~isPaused /\ catSpriteRef.set
    /\ touchStateRef.active
    /\ SqLen(TouchInput(Zero, touchStateRef)) > MAX_SPEED * MAX_SPEED
    /\ SqLen(catVelocityRef) = MAX_SPEED * MAX_SPEED

\* C7: a step captures (score + 1, sardine re-created) exactly when the
\* distance it evaluates is strictly below COLLISION_DISTANCE; at that
\* distance or more the score and the sardine instance are unchanged.
C7_CaptureIffBelowDistance ==
    [][SimulationStep =>
         IF EvaluatedSq < COLLISION_DISTANCE * COLLISION_DISTANCE
         THEN caught' /\ score' = score + 1 /\ sardineSpriteRef'.id # sardineSpriteRef.id
         ELSE ~caught' /\ score' = score /\ sardineSpriteRef'.id = sardineSpriteRef.id]_vars

\* C7 witness: the sardine was at exactly COLLISION_DISTANCE from the resting
\* cat at (0,0); the step did not capture it and it fled one escape step.
C7_Witness ==
    /\ lastOp = "frame" /\ ~caught /\ score = 1
    /\ catSpriteRef.set /\ At(catSpriteRef, Zero)
    /\ sardineSpriteRef.id = 7
    /\ At(sardineSpriteRef, [x |-> COLLISION_DISTANCE + SARDINE_ESCAPE_SPEED, y |-> 0])

\* C8: when a step detects a capture, at its end a sardine exists at a
\* position with x in [-7, 7] and y in [-3, 3], the sardine's velocity is
\* zero, and the previous sardine instance is disposed.
C8_RespawnAfterCapture ==
    [][(lastOp' = "frame" /\ caught') =>
         /\ sardineSpriteRef'.set
         /\ sardineSpriteRef'.x \in RandomX /\ sardineSpriteRef'.y \in RandomY
         /\ sardineVelocityRef' = Zero
         /\ sardineSpriteRef'.id # sardineSpriteRef.id
         /\ sardineSpriteRef.id \in disposed'
         /\ sardineSpriteRef'.id \notin disposed']_vars

\* C8 witness: a capture has just replaced sardine 7 by a new instance.
C8_Witness ==
    /\ lastOp = "frame" /\ caught
    /\ sardineSpriteRef.set /\ sardineSpriteRef.id > 7 /\ 7 \in disposed

\* C9 (as claimed): the sardine created by a capture is not within
\* COLLISION_DISTANCE of the cat.
C9_RespawnAwayFromPlayer ==
    [][(lastOp' = "frame" /\ caught') =>
         CatSardineSq(Refs') >= COLLISION_DISTANCE * COLLISION_DISTANCE]_vars

\* C10: while the game has not started, after every frame the cat is at
\* (-4,0), the sardine at (4,0) and the dog at (8,0): no velocity has been
\* integrated into a position.
C10_PinnedBeforeStart ==
    (lastOp = "frame" /\ ~isGameStarted) =>
        /\ catSpriteRef.set => At(catSpriteRef, CatSpawn)
        /\ sardineSpriteRef.set => At(sardineSpriteRef, SardineSpawn)
        /\ dogSpriteRef.set => At(dogSpriteRef, DogSpawn)

\* C10 witness: a frame ran before the start while a mouse drag had given the
\* cat a velocity and a key was held; all three bodies exist.
C10_Witness ==
    /\ lastOp = "frame" /\ ~isGameStarted
    /\ catSpriteRef.set /\ sardineSpriteRef.set /\ dogSpriteRef.set
    /\ catVelocityRef # Zero

Abs(a) == IF a < 0 THEN -a ELSE a

\* the vector from the sardine (before its move) to the cat (after its move)
EvaluatedDelta ==
    [x |-> catSpriteRef'.x - sardineSpriteRef.x,
     y |-> catSpriteRef'.y - sardineSpriteRef.y]

\* v points directly away from the cat (d is the vector toward the cat) and
\* has magnitude SARDINE_ESCAPE_SPEED, both within two steps of the grid
AwayAtEscapeSpeed(v, d) ==
    /\ v.x * d.x + v.y * d.y < 0
    /\ Abs(v.x * d.y - v.y * d.x) <= 2 * (Abs(d.x) + Abs(d.y))
    /\ SqLen(v) <= SARDINE_ESCAPE_SPEED * SARDINE_ESCAPE_SPEED
    /\ SqLen(v) >= (SARDINE_ESCAPE_SPEED - 2) * (SARDINE_ESCAPE_SPEED - 2)

\* C11 (as claimed): in every step whose evaluated distance is below
\* SARDINE_AWARENESS_DISTANCE the sardine's velocity after the step points
\* directly away from the cat with magnitude SARDINE_ESCAPE_SPEED.
C11_EscapeWheneverAware ==
    [][(SimulationStep
        /\ EvaluatedSq < SARDINE_AWARENESS_DISTANCE * SARDINE_AWARENESS_DISTANCE)
         => AwayAtEscapeSpeed(sardineVelocityRef', EvaluatedDelta)]_vars

\* C11 (amended): in every step whose evaluated distance is below
\* SARDINE_AWARENESS_DISTANCE and not below COLLISION_DISTANCE (the step does
\* not capture) the sardine's velocity after the step points directly away
\* from the cat with magnitude SARDINE_ESCAPE_SPEED, whatever it was before.
C11_EscapeVelocity ==
    [][(SimulationStep
        /\ EvaluatedSq < SARDINE_AWARENESS_DISTANCE * SARDINE_AWARENESS_DISTANCE
        /\ EvaluatedSq >= COLLISION_DISTANCE * COLLISION_DISTANCE)
         => AwayAtEscapeSpeed(sardineVelocityRef', EvaluatedDelta)]_vars

\* C11 witness: the sardine that sat in the top right corner with velocity
\* (0.053, 0.026) was approached by the cat from 2.2 away; after the step it
\* is still uncaught in the corner and flees up and to the right.
C11_Witness ==
    /\ lastOp = "frame" /\ ~caught /\ score = 1
    /\ sardineSpriteRef.id = 7
    /\ At(sardineSpriteRef, [x |-> BOUNDS, y |-> BOUNDS \div 2])
    /\ catSpriteRef.x > 6 * Unit /\ catSpriteRef.x < BOUNDS - COLLISION_DISTANCE
    /\ sardineVelocityRef.x > 0 /\ sardineVelocityRef.y > 0

\* C12: in every step whose evaluated distance is SARDINE_AWARENESS_DISTANCE
\* or more, each component of the sardine's velocity after the step is 0.95
\* times its value before (to the grid, rounded toward zero).
C12_SlowdownWhenFar ==
    [][(SimulationStep
        /\ EvaluatedSq >= SARDINE_AWARENESS_DISTANCE * SARDINE_AWARENESS_DISTANCE)
         => /\ Abs(100 * sardineVelocityRef'.x - 95 * sardineVelocityRef.x) < 100
            /\ Abs(100 * sardineVelocityRef'.y - 95 * sardineVelocityRef.y) < 100
            /\ Abs(sardineVelocityRef'.x) <= Abs(sardineVelocityRef.x)
            /\ Abs(sardineVelocityRef'.y) <= Abs(sardineVelocityRef.y)]_vars

\* C12 witness: the sardine fled from 3.95 to 4.01 from the resting cat with
\* velocity (0.06, 0); the next step slowed it to (0.057, 0).
C12_Witness ==
    /\ lastOp = "frame" /\ ~caught /\ At(catSpriteRef, Zero)
    /\ sardineVelocityRef = [x |-> 57, y |-> 0]
    /\ At(sardineSpriteRef, [x |-> 4067, y |-> 0])

\* other positions and velocities the dog could have
AltDogs ==
    {[x |-> -BOUNDS, y |-> -(BOUNDS \div 2), v |-> Zero],
     [x |-> 0, y |-> 0, v |-> [x |-> DOG_CHASE_SPEED, y |-> 0]]}

\* C13: what a simulation step does to the cat, the sardine and the score is
\* what the same step does from the state in which only the dog's position
\* and velocity are different (same keys, same touch, same respawn position):
\* runs that differ only in the dog stay equal on cat, sardine and score.
C13_PursuerNoInterference ==
    [][(SimulationStep /\ dogSpriteRef.set) =>
         \A d \in AltDogs :
           LET alt == [Refs EXCEPT !.dog.x = d.x, !.dog.y = d.y, !.dogVelocity = d.v]
               m   == Moved(alt, keyDownMapRef, touchStateRef)
               hit == StepDistanceSq(alt, keyDownMapRef, touchStateRef)
                        < COLLISION_DISTANCE * COLLISION_DISTANCE
           IN /\ caught' = hit
              /\ score' = score + (IF hit THEN 1 ELSE 0)
              /\ catSpriteRef' = m.cat
              /\ catVelocityRef' = m.catVelocity
              /\ IF hit
                 THEN /\ sardineVelocityRef' = Zero
                      /\ sardineSpriteRef'.id # sardineSpriteRef.id
                 ELSE /\ sardineSpriteRef' = m.sardine
                      /\ sardineVelocityRef' = m.sardineVelocity]_vars

\* C13 witness: a step ran with the dog on the moving cat (both in the top
\* right corner).
C13_Witness ==
    /\ lastOp = "frame" /\ isGameStarted /\ ~isPaused
    /\ catSpriteRef.set /\ sardineSpriteRef.set /\ dogSpriteRef.set
    /\ At(dogSpriteRef, catSpriteRef) /\ catVelocityRef # Zero

\* C14 (as claimed): a frame taken while the reference to the cat, the
\* sardine or the dog is unset changes no position, velocity or facing and
\* does not change the score.
C14_UnsetBodyNoOp ==
    [][(lastOp' = "frame"
        /\ (~catSpriteRef.set \/ ~sardineSpriteRef.set \/ ~dogSpriteRef.set))
         => (BodyState' = BodyState /\ score' = score)]_vars

\* C18 (as claimed): in every reachable state the cat's speed is at most
\* MAX_SPEED.
C18_SpeedLimitedInEveryState ==
    SqLen(catVelocityRef) <= MAX_SPEED * MAX_SPEED

\* C19 (as claimed): the release of the mouse button, with no key held and no
\* touch active, leaves the cat with zero velocity, and the frames that
\* follow the release do not move the cat.
NoOtherInput == keyDownMapRef = {} /\ ~touchStateRef.active

C19_ReleaseStopsPlayer ==
    [][/\ (lastOp' = "mouseup" /\ NoOtherInput) => catVelocityRef' = Zero
       /\ (lastOp = "mouseup" /\ lastOp' = "frame" /\ NoOtherInput)
            => (catSpriteRef'.x = catSpriteRef.x /\ catSpriteRef'.y = catSpriteRef.y)]_vars

\* C20 (as claimed): a step captures exactly when the distance between the
\* cat and the sardine after both have moved in the step is below
\* COLLISION_DISTANCE.
C20_CaptureOnDistanceAfterMoves ==
    [][SimulationStep =>
         (caught' <=> CatSardineSq(Moved(Refs, keyDownMapRef, touchStateRef))
                        < COLLISION_DISTANCE * COLLISION_DISTANCE)]_vars

\* C15: when a step captures and the haptic call is unavailable or throws,
\* the exception does not leave the render observer, the score is incremented
\* by one and the sardine is re-created with zero velocity, as when the call
\* succeeds.
C15_CaptureDespiteHaptics ==
    [][(lastOp' = "frame" /\ caught') =>
         /\ vibration' \in {"vibrated", "skipped", "ignored"}
         /\ score' = score + 1
         /\ sardineSpriteRef'.set /\ sardineSpriteRef'.id # sardineSpriteRef.id
         /\ sardineSpriteRef.id \in disposed'
         /\ sardineVelocityRef' = Zero]_vars

\* C15 witness: a capture was completed (score 2, new sardine) although
\* navigator.vibrate threw.
C15_Witness ==
    /\ lastOp = "frame" /\ caught /\ vibration = "ignored"
    /\ score = 2 /\ sardineSpriteRef.set /\ sardineSpriteRef.id = 8

\* C16 (as claimed): at most one render observer and at most one listener of
\* each type the listener effect installs (the eight handlers and
\* 'dragstart') is registered, and what is registered belongs to the current
\* scene and to the last run of the listener effect: earlier runs' observer
\* and listeners were removed before the new ones were installed.
C16_SingleObserverAndHandlers ==
    /\ Cardinality(observers) <= 1
    /\ observers \subseteq {scenesCreated}
    /\ \A t \in HandlerTypes \cup {"dragstart"} :
         /\ Cardinality(listeners[t]) <= 1
         /\ listeners[t] \subseteq {listenerRun}

\* the sprites constructed and not disposed
LiveSprites == (1 .. spritesCreated) \ disposed

\* C17 (as claimed): while mounted only the resources of the current scene
\* and of the last run of the listener effect are held; after the unmount no
\* observer, sprite, scene, sound or listener ('resize' and 'dragstart'
\* included) is left.
C17_ResourcesReleased ==
    /\ mounted =>
         /\ observers \subseteq {scenesCreated}
         /\ liveScenes \subseteq {scenesCreated}
         /\ liveSounds \subseteq {listenerRun}
         /\ LiveSprites \subseteq {r.id : r \in {t \in Sprites : t.set}}
         /\ listeners["resize"] \subseteq {scenesCreated}
         /\ \A t \in ListenerTypes \ {"resize"} : listeners[t] \subseteq {listenerRun}
    /\ ~mounted =>
         /\ observers = {} /\ liveScenes = {} /\ liveSounds = {}
         /\ LiveSprites = {}
         /\ \A t \in ListenerTypes : listeners[t] = {}

\* v points from the dog toward the cat (d is the vector from the dog to the
\* cat; for d = 0 the angle is 0) and has magnitude DOG_CHASE_SPEED, both
\* within two steps of the grid
TowardAtChaseSpeed(v, d) ==
    /\ IF d.x = 0 /\ d.y = 0
       THEN v.y = 0 /\ v.x > 0
       ELSE /\ v.x * d.x + v.y * d.y > 0
            /\ Abs(v.x * d.y - v.y * d.x) <= 2 * (Abs(d.x) + Abs(d.y))
    /\ SqLen(v) <= DOG_CHASE_SPEED * DOG_CHASE_SPEED
    /\ SqLen(v) >= (DOG_CHASE_SPEED - 2) * (DOG_CHASE_SPEED - 2)

\* C21: in every executed step, at any distance, the dog's velocity becomes
\* the vector of magnitude DOG_CHASE_SPEED from the dog toward the cat (as
\* they were when the step began), whatever it was before, and the dog's
\* position advances by exactly that velocity and is then clamped.
C21_PursuerChases ==
    [][(SimulationStep /\ dogSpriteRef.set) =>
         /\ TowardAtChaseSpeed(dogVelocityRef',
                               [x |-> catSpriteRef.x - dogSpriteRef.x,
                                y |-> catSpriteRef.y - dogSpriteRef.y])
         /\ dogSpriteRef'.x = Max(-BOUNDS, Min(BOUNDS, dogSpriteRef.x + dogVelocityRef'.x))
         /\ dogSpriteRef'.y = Max(-(BOUNDS \div 2),
                                  Min(BOUNDS \div 2, dogSpriteRef.y + dogVelocityRef'.y))]_vars

\* C21 witness: the first step after the start moved the dog, 12 away from
\* the cat, from (8,0) to (7.982,0).
C21_Witness ==
    /\ lastOp = "frame" /\ isGameStarted /\ ~isPaused
    /\ catSpriteRef.set /\ sardineSpriteRef.set /\ dogSpriteRef.set
    /\ At(dogSpriteRef, [x |-> DogSpawn.x - DOG_CHASE_SPEED, y |-> 0])
    /\ dogVelocityRef = [x |-> -DOG_CHASE_SPEED, y |-> 0]

\* the net number of pressed directions on each axis: right minus left and up
\* minus down, an arrow key and its letter counting once
PressedAxes ==
    LET on(a, b) == IF a \in keyDownMapRef \/ b \in keyDownMapRef THEN 1 ELSE 0
    IN [x |-> on("ArrowRight", "d") - on("ArrowLeft", "a"),
        y |-> on("ArrowUp", "w") - on("ArrowDown", "s")]

\* the step's drag (0.98, rounded toward zero) and speed limit applied to v
AfterDragAndLimit(v) ==
    LET d == [x |-> TruncDiv(v.x * DRAG, 100), y |-> TruncDiv(v.y * DRAG, 100)]
    IN IF SqLen(d) > MAX_SPEED * MAX_SPEED THEN LimitSpeed(d) ELSE d

\* C22: in every executed step with no touch drag active the cat's velocity
\* is its previous velocity plus ACCELERATION times the net pressed
\* directions, then drag and speed limit: opposite keys cancel and released
\* keys add nothing.
C22_KeyboardAdds ==
    [][(SimulationStep /\ ~touchStateRef.active) =>
         catVelocityRef' =
            AfterDragAndLimit([x |-> catVelocityRef.x + ACCELERATION * PressedAxes.x,
                               y |-> catVelocityRef.y + ACCELERATION * PressedAxes.y])]_vars

\* C22 witness: ArrowRight was held for two steps from rest: the velocity is
\* (0 + 0.01) * 0.98 = 0.009 after the first and (0.009 + 0.01) * 0.98 = 0.018
\* after the second.
C22_Witness ==
    /\ lastOp = "frame" /\ isGameStarted /\ ~isPaused
    /\ keyDownMapRef = {"ArrowRight"} /\ ~touchStateRef.active
    /\ catSpriteRef.set /\ sardineSpriteRef.set
    /\ catVelocityRef = [x |-> 18, y |-> 0]

\* the drag vector of a gesture, from its anchor to its current point, in
\* world directions (the client y axis points down, the world y axis up)
DragVector(g) == [x |-> g.currentX - g.startX, y |-> -(g.currentY - g.startY)]

\* C23: while a touch drag is active every executed step replaces the cat's
\* velocity by the drag vector scaled by TOUCH_SENSITIVITY (then drag and
\* speed limit), whatever the previous velocity and the keys held; a touch
\* move leaves the anchor where the touch started.
C23_TouchReplaces ==
    [][/\ (SimulationStep /\ touchStateRef.active) =>
            catVelocityRef' =
              AfterDragAndLimit([x |-> DragVector(touchStateRef).x * TOUCH_SENSITIVITY,
                                 y |-> DragVector(touchStateRef).y * TOUCH_SENSITIVITY])
       /\ lastOp' = "touchmove" =>
            /\ touchStateRef'.startX = touchStateRef.startX
            /\ touchStateRef'.startY = touchStateRef.startY
            /\ touchStateRef'.active = touchStateRef.active]_vars

\* C23 witness: a step ran with a key held and a touch active whose current
\* point is its anchor: the key's contribution was discarded and the cat is
\* at rest.
C23_Witness ==
    /\ lastOp = "frame" /\ isGameStarted /\ ~isPaused
    /\ catSpriteRef.set /\ sardineSpriteRef.set
    /\ touchStateRef.active /\ DragVector(touchStateRef) = Zero
    /\ keyDownMapRef # {} /\ catVelocityRef = Zero

\* C24: a mouse move during an active mouse drag adds the vector from the
\* anchor to the new point, scaled by MOUSE_SENSITIVITY, to the cat's velocity
\* and moves the anchor to the new point (so that the additions of a drag
\* telescope to its net displacement); a mouse move with no active drag
\* changes neither the velocity nor the mouse state; the step that follows a
\* mouse move adds the held keys' acceleration to what the move left.
C24_MouseMoveAdds ==
    [][/\ (lastOp = "mousemove" /\ SimulationStep /\ ~touchStateRef.active) =>
            catVelocityRef' =
              AfterDragAndLimit([x |-> catVelocityRef.x + ACCELERATION * PressedAxes.x,
                                 y |-> catVelocityRef.y + ACCELERATION * PressedAxes.y])
       /\ lastOp' = "mousemove" =>
         IF mouseStateRef.active
         THEN /\ catVelocityRef'.x = catVelocityRef.x
                   + (mouseStateRef'.currentX - mouseStateRef.startX) * MOUSE_SENSITIVITY
              /\ catVelocityRef'.y = catVelocityRef.y
                   - (mouseStateRef'.currentY - mouseStateRef.startY) * MOUSE_SENSITIVITY
              /\ mouseStateRef'.startX = mouseStateRef'.currentX
              /\ mouseStateRef'.startY = mouseStateRef'.currentY
              /\ mouseStateRef'.active
         ELSE /\ catVelocityRef' = catVelocityRef
              /\ mouseStateRef' = mouseStateRef]_vars

\* C24 witness: a drag that began at (0,0) went to (MaxDrag,0) and then to the
\* third point: the velocity holds MOUSE_SENSITIVITY times the net
\* displacement from (0,0), with no frame in between.
C24_Witness ==
    /\ lastOp = "mousemove" /\ mouseStateRef.active
    /\ mouseStateRef.startX = -(MaxDrag \div 3) /\ mouseStateRef.startY = MaxDrag \div 2
    /\ mouseStateRef.currentX = mouseStateRef.startX
    /\ mouseStateRef.currentY = mouseStateRef.startY
    /\ catVelocityRef = [x |-> -(MaxDrag \div 3) * MOUSE_SENSITIVITY,
                         y |-> -((MaxDrag \div 2) * MOUSE_SENSITIVITY)]

FrameOrInputOps ==
    {"frame", "keydown", "keyup", "touchstart", "touchmove", "touchend",
     "mousedown", "mousemove", "mouseup"}

\* C26: the score is never negative; it changes only by +1, in a frame that
\* caught the sardine while the game was started and not paused, or to 0 by a
\* restart, which always leaves it 0; while the game is paused or not started
\* no frame and no input event changes it.
C26_ScoreChanges ==
    [][/\ score >= 0 /\ score' >= 0
       /\ score' # score =>
            \/ /\ lastOp' = "frame" /\ caught'
               /\ isGameStarted /\ ~isPaused
               /\ score' = score + 1
            \/ lastOp' = "restart" /\ score' = 0
       /\ lastOp' = "restart" => score' = 0
       /\ ((isPaused \/ ~isGameStarted) /\ lastOp' \in FrameOrInputOps) =>
            score' = score]_vars

\* C26 witness: a frame caught the sardine (the score went up from 1) and the
\* restart that followed reset the score to 0.
C26_Witness ==
    /\ lastOp = "restart" /\ caught /\ score = 0 /\ key = 1
    /\ isGameStarted /\ ~isPaused

\* C27: once the game has started it stays started, whatever is pressed and
\* whatever is caught; a restart leaves the game unpaused and changes nothing
\* about its being started.
C27_StartedForGood ==
    [][/\ isGameStarted => isGameStarted'
       /\ lastOp' = "restart" =>
            ~isPaused' /\ isGameStarted' = isGameStarted]_vars

\* C27 witness: a paused game was restarted and is now started and running.
C27_Witness ==
    /\ lastOp = "restart" /\ key = 1 /\ isGameStarted /\ ~isPaused
    /\ nEvents >= 1 /\ obs.isGameStarted /\ ~obs.isPaused
    /\ scenesCreated >= 4

LiveEffects == {i \in DOMAIN particleSystems : particleSystems[i].disposals = 0}

\* C29: no catch effect is disposed more than once, and while a live catch
\* effect exists particleSystemRef is neither null nor pointing at an older,
\* disposed effect, whatever the order of captures and timers.
C29_EffectsDisposedOnce ==
    /\ \A i \in DOMAIN particleSystems : particleSystems[i].disposals <= 1
    /\ \A j \in LiveEffects :
         /\ particleSystemRef # 0
         /\ ~(particleSystemRef < j /\ particleSystems[particleSystemRef].disposals > 0)

\* the dog is within DOG_CHASE_SPEED of the cat
DogNearCat ==
    /\ dogSpriteRef.set /\ catSpriteRef.set
    /\ (dogSpriteRef.x - catSpriteRef.x) * (dogSpriteRef.x - catSpriteRef.x)
       + (dogSpriteRef.y - catSpriteRef.y) * (dogSpriteRef.y - catSpriteRef.y)
         <= DOG_CHASE_SPEED * DOG_CHASE_SPEED

\* C30: in a started, unpaused session whose cat stays where it is (no input,
\* zero velocity) the dog eventually is within DOG_CHASE_SPEED of the cat and
\* from then on stays within it.
C30_PursuerReachesPlayer == <>[]DogNearCat

\* C30 witness: the dog, which started 12 away from the cat resting at its
\* spawn point, is within DOG_CHASE_SPEED of it.
C30_Witness ==
    /\ lastOp = "frame" /\ isGameStarted /\ ~isPaused
    /\ At(catSpriteRef, CatSpawn) /\ catVelocityRef = Zero
    /\ keyDownMapRef = {} /\ ~touchStateRef.active
    /\ DogNearCat

===========================================================================
